---- MODULE Spec2Model ----
(***************************************************************************)
(* resultit: the iterator adapters stop_after_error() and                  *)
(* flatten_results(), modelled pull by pull.                               *)
(*                                                                         *)
(* An iterator is a state plus a next() operation.  Every next() below is  *)
(* an operator that takes the iterator's state and gives a record          *)
(* [ret, iter]: the Option it returns and the iterator's state afterwards. *)
(***************************************************************************)
EXTENDS Integers, Sequences, FiniteSets, TLC

VARIABLES
    src,        \* the items the underlying source answers, call by call
    srcFused,   \* whether the source's type implements FusedIterator
    adapter,    \* the adapter chain under test, the source's cursor inside
    out,        \* what each pull on the chain has returned, in order
    once,       \* a reference chain: one stop_after_error() over the same source
    onceOut     \* what each pull on the reference chain has returned

vars == <<src, srcFused, adapter, out, once, onceOut>>

---------------------------------------------------------------------------
(* Bounds *)

\* longest source of Result<Value, Error> items
MaxLen == 3
\* longest source of Result<Collection, Error> items
MaxOuter == 3
\* most collection elements a source holds, all its Success items together
MaxElems == 3
\* how many times the caller pulls a chain over an endless source
MaxPulls == 5
\* how many "exhausted" answers the caller sits through before it stops pulling
MaxExhausted == 2

---------------------------------------------------------------------------
(* Option and Result *)

None == [tag |-> "None"]
Some(x) == [tag |-> "Some", val |-> x]
Ok(v) == [tag |-> "Ok", val |-> v]
Err(e) == [tag |-> "Err", val |-> e]

IsNone(x) == x.tag = "None"
IsOk(x) == x.tag = "Ok"
IsErr(x) == x.tag = "Err"

Values == {"1", "2"}
Errors == {"Error1", "Error2"}

SeqsUpTo(S, n) == UNION {[1..k -> S] : k \in 0..n}

Last(s) == s[Len(s)]

\* number of "exhausted" answers in a sequence of pull results
RECURSIVE NoneCount(_)
NoneCount(s) ==
    IF s = <<>> THEN 0
    ELSE (IF IsNone(Head(s)) THEN 1 ELSE 0) + NoneCount(Tail(s))

---------------------------------------------------------------------------
(* The underlying source: any Iterator.  It answers src[1], src[2], ... and *)
(* "exhausted" once src is used up.  An entry of src may itself be None: an *)
(* iterator that is not fused may resume after it has answered None.        *)

NewSource == [pos |-> 0, calls |-> 0]

SourceNext(it) ==
    IF it.pos < Len(src)
    THEN [ret |-> src[it.pos + 1], iter |-> [pos |-> it.pos + 1, calls |-> it.calls + 1]]
    ELSE [ret |-> None, iter |-> [pos |-> it.pos, calls |-> it.calls + 1]]

---------------------------------------------------------------------------
(* stop_after_error.rs *)

\* StopAfterError::stop_after_error
stop_after_error(iter) == [iter |-> iter, error |-> FALSE]

\* a next() that returns the failure but forgets to set the error flag
StopAfterErrorIter_next_noflag(self, up) ==
    IF self.error THEN [ret |-> None, iter |-> self]
    ELSE IF IsNone(up.ret) THEN [ret |-> None, iter |-> [iter |-> up.iter, error |-> FALSE]]
    ELSE [ret |-> up.ret, iter |-> [iter |-> up.iter, error |-> FALSE]]

\* a next() that swallows the failure: it halts without returning it
StopAfterErrorIter_next_swallow(self, up) ==
    IF self.error THEN [ret |-> None, iter |-> self]
    ELSE IF IsNone(up.ret) THEN [ret |-> None, iter |-> [iter |-> up.iter, error |-> FALSE]]
    ELSE IF IsOk(up.ret) THEN [ret |-> Ok(up.ret.val), iter |-> [iter |-> up.iter, error |-> FALSE]]
    ELSE [ret |-> None, iter |-> [iter |-> up.iter, error |-> TRUE]]

\* a next() that, once halted, still drains the wrapped iterator
StopAfterErrorIter_next_drain(self, up) ==
    IF self.error THEN [ret |-> None, iter |-> [iter |-> up.iter, error |-> TRUE]]
    ELSE IF IsNone(up.ret) THEN [ret |-> None, iter |-> [iter |-> up.iter, error |-> FALSE]]
    ELSE IF IsOk(up.ret) THEN [ret |-> Ok(up.ret.val), iter |-> [iter |-> up.iter, error |-> FALSE]]
    ELSE [ret |-> Err(up.ret.val), iter |-> [iter |-> up.iter, error |-> TRUE]]

\* a next() whose halted branch clears the error flag again
StopAfterErrorIter_next_reset(self, up) ==
    IF self.error THEN [ret |-> None, iter |-> [iter |-> self.iter, error |-> FALSE]]
    ELSE IF IsNone(up.ret) THEN [ret |-> None, iter |-> [iter |-> up.iter, error |-> FALSE]]
    ELSE IF IsOk(up.ret) THEN [ret |-> Ok(up.ret.val), iter |-> [iter |-> up.iter, error |-> FALSE]]
    ELSE [ret |-> Err(up.ret.val), iter |-> [iter |-> up.iter, error |-> TRUE]]

\* a next() that also halts when the wrapped iterator answers "exhausted"
StopAfterErrorIter_next_fuse(self, up) ==
    IF self.error THEN [ret |-> None, iter |-> self]
    ELSE IF IsNone(up.ret) THEN [ret |-> None, iter |-> [iter |-> up.iter, error |-> TRUE]]
    ELSE IF IsOk(up.ret) THEN [ret |-> Ok(up.ret.val), iter |-> [iter |-> up.iter, error |-> FALSE]]
    ELSE [ret |-> Err(up.ret.val), iter |-> [iter |-> up.iter, error |-> TRUE]]

\* StopAfterErrorIter::next.  self = [iter, error]; up is what self.iter.next()
\* gives, and is used only on the branch that calls it.
StopAfterErrorIter_next(self, up) ==
    IF self.error THEN [ret |-> None, iter |-> self]
    ELSE IF IsNone(up.ret) THEN [ret |-> None, iter |-> [iter |-> up.iter, error |-> FALSE]]
    ELSE IF IsOk(up.ret) THEN [ret |-> Ok(up.ret.val), iter |-> [iter |-> up.iter, error |-> FALSE]]
    ELSE [ret |-> Err(up.ret.val), iter |-> [iter |-> up.iter, error |-> TRUE]]

---------------------------------------------------------------------------
(* The caller: it pulls the chain until it has seen MaxExhausted            *)
(* "exhausted" answers.                                                     *)

MayPull == NoneCount(out) < MaxExhausted

\* source.stop_after_error(), pulled once
StopNext(self) == StopAfterErrorIter_next(self, SourceNext(self.iter))

StopItems == {Ok(v) : v \in Values} \cup {Err(e) : e \in Errors}

InitStop ==
    /\ src \in SeqsUpTo(StopItems \cup {None}, MaxLen)
    /\ srcFused = FALSE
    /\ adapter = stop_after_error(NewSource)
    /\ out = <<>>
    /\ once = None
    /\ onceOut = <<>>

PullStop ==
    /\ MayPull
    /\ LET r == StopNext(adapter)
       IN /\ adapter' = r.iter
          /\ out' = Append(out, r.ret)
    /\ UNCHANGED <<src, srcFused, once, onceOut>>

NextStop == PullStop

SpecStop == InitStop /\ [][NextStop]_vars

---------------------------------------------------------------------------
(* source.stop_after_error().stop_after_error(), beside a reference chain   *)
(* source.stop_after_error() over a second copy of the same source; the     *)
(* caller pulls both chains in step.                                        *)

TwiceNext(self) == StopAfterErrorIter_next(self, StopNext(self.iter))

InitTwice ==
    /\ src \in SeqsUpTo(StopItems \cup {None}, MaxLen)
    /\ srcFused = FALSE
    /\ adapter = stop_after_error(stop_after_error(NewSource))
    /\ out = <<>>
    /\ once = stop_after_error(NewSource)
    /\ onceOut = <<>>

PullTwice ==
    /\ MayPull
    /\ LET r == TwiceNext(adapter)
           q == StopNext(once)
       IN /\ adapter' = r.iter
          /\ out' = Append(out, r.ret)
          /\ once' = q.iter
          /\ onceOut' = Append(onceOut, q.ret)
    /\ UNCHANGED <<src, srcFused>>

NextTwice == PullTwice

SpecTwice == InitTwice /\ [][NextTwice]_vars

---------------------------------------------------------------------------
(* flatten_results.rs.  transform() builds std's FlatMap over the source:   *)
(* the source behind a Fuse, and frontiter, the Chain that flatten() made   *)
(* of the source item being unrolled.  (backiter is used by next_back()     *)
(* alone and stays None here.)                                              *)

\* wrap_result
wrap_result(t) == Ok(t)

RECURSIVE Reverse(_)
Reverse(s) == IF s = <<>> THEN <<>> ELSE Reverse(Tail(s)) \o <<Head(s)>>

\* a flatten() that unrolls the collection back to front
flatten_reversed(res) ==
    IF IsOk(res) THEN [a |-> Reverse(res.val), b |-> None]
    ELSE [a |-> <<>>, b |-> Err(res.val)]

\* a flatten() that drops the error instead of passing it on
flatten_droperr(res) ==
    IF IsOk(res) THEN [a |-> res.val, b |-> None]
    ELSE [a |-> <<>>, b |-> None]

\* flatten: the Chain v.into_iter().flatten().map(wrap_result).chain(r), as
\* a = the elements of v not yet pulled (none when v is None) and b = r.
flatten(res) ==
    IF IsOk(res) THEN [a |-> res.val, b |-> None]
    ELSE [a |-> <<>>, b |-> Err(res.val)]

\* Chain::next on the Chain flatten() returns: the next element of the
\* collection through wrap_result, then the one item of r, then "exhausted".
ChainNext(c) ==
    IF c.a # <<>>
    THEN [ret |-> wrap_result(Head(c.a)), iter |-> [a |-> Tail(c.a), b |-> c.b]]
    ELSE IF ~IsNone(c.b)
    THEN [ret |-> c.b, iter |-> [a |-> <<>>, b |-> None]]
    ELSE [ret |-> None, iter |-> c]

\* a Fuse that never remembers the "exhausted" answer
FuseNext_unfused(f) ==
    LET n == SourceNext(f.iter)
    IN [ret |-> n.ret, iter |-> [live |-> TRUE, iter |-> n.iter]]

\* Fuse::next, as FlatMap holds its source.  For a source that implements
\* FusedIterator std forwards every call; for any other it stops calling
\* the source after the first "exhausted" answer.
FuseNext(f) ==
    IF srcFused
    THEN LET n == SourceNext(f.iter)
         IN [ret |-> n.ret, iter |-> [live |-> TRUE, iter |-> n.iter]]
    ELSE IF ~f.live THEN [ret |-> None, iter |-> f]
    ELSE LET n == SourceNext(f.iter)
         IN [ret |-> n.ret, iter |-> [live |-> ~IsNone(n.ret), iter |-> n.iter]]

\* transform / FlattenResults::flatten_results: outer_iter.flat_map(flatten)
transform(outer_iter) ==
    [iter |-> [live |-> TRUE, iter |-> outer_iter], frontiter |-> None]

\* FlatMap::next: take from frontiter; when it is used up clear it, pull the
\* next source item through the Fuse, make flatten() of it the frontiter, and
\* try again; "exhausted" when the Fuse answers "exhausted".
RECURSIVE FlatMapLoop(_)
FlatMapLoop(self) ==
    LET e == IF IsNone(self.frontiter) THEN [ret |-> None, iter |-> None]
             ELSE ChainNext(self.frontiter.val)
    IN IF ~IsNone(e.ret)
       THEN [ret |-> e.ret, iter |-> [iter |-> self.iter, frontiter |-> Some(e.iter)]]
       ELSE LET o == FuseNext(self.iter)
            IN IF IsNone(o.ret)
               THEN [ret |-> None, iter |-> [iter |-> o.iter, frontiter |-> None]]
               ELSE FlatMapLoop([iter |-> o.iter, frontiter |-> Some(flatten(o.ret))])

\* a next() that runs ahead: having taken the last item of the frontiter it
\* fetches the next source item at once
FlatMap_next_eager(self) ==
    LET r == FlatMapLoop(self)
    IN IF IsNone(r.ret) \/ ~IsNone(ChainNext(r.iter.frontiter.val).ret) THEN r
       ELSE LET o == FuseNext(r.iter.iter)
            IN [ret |-> r.ret,
                iter |-> [iter |-> o.iter,
                          frontiter |-> IF IsNone(o.ret) THEN None
                                        ELSE Some(flatten(o.ret))]]

\* a next() that is fail-stop: once it has returned a Failure it answers
\* "exhausted"
FlatMap_next_failstop(self) ==
    IF \E i \in 1..Len(out) : IsErr(out[i])
    THEN [ret |-> None, iter |-> self]
    ELSE FlatMapLoop(self)

\* a next() without the loop: it answers "exhausted" when the source item it
\* has just pulled yields nothing
FlatMap_next_noloop(self) ==
    LET e == IF IsNone(self.frontiter) THEN [ret |-> None, iter |-> None]
             ELSE ChainNext(self.frontiter.val)
    IN IF ~IsNone(e.ret)
       THEN [ret |-> e.ret, iter |-> [iter |-> self.iter, frontiter |-> Some(e.iter)]]
       ELSE LET o == FuseNext(self.iter)
            IN IF IsNone(o.ret)
               THEN [ret |-> None, iter |-> [iter |-> o.iter, frontiter |-> None]]
               ELSE LET f == ChainNext(flatten(o.ret))
                    IN [ret |-> f.ret,
                        iter |-> [iter |-> o.iter, frontiter |-> Some(f.iter)]]

FlatMap_next(self) == FlatMapLoop(self)

Elems == {Ok("1"), Err("Error2")}
OuterErrors == {"Error1", "Error3"}
Collections(n) == SeqsUpTo(Elems, n)
FlattenItems(n) == {Ok(c) : c \in Collections(n)} \cup {Err(e) : e \in OuterErrors}

\* how many collection elements the source entries of s hold
RECURSIVE ElemTotal(_)
ElemTotal(s) ==
    IF s = <<>> THEN 0
    ELSE (IF IsOk(Head(s)) THEN Len(Head(s).val) ELSE 0) + ElemTotal(Tail(s))

\* the sources of at most n entries that hold at most e collection elements
RECURSIVE SourcesUpTo(_, _)
SourcesUpTo(n, e) ==
    IF n = 0 THEN {<<>>}
    ELSE LET shorter == SourcesUpTo(n - 1, e)
         IN shorter \cup
            {s \in {<<x>> \o t : x \in FlattenItems(e) \cup {None},
                                  t \in {u \in shorter : Len(u) = n - 1}} :
                ElemTotal(s) <= e}

IsFusedSource(s) == \A i \in 1..Len(s) : ~IsNone(s[i])

InitFlatten ==
    /\ src \in SourcesUpTo(MaxOuter, MaxElems)
    /\ srcFused \in {f \in BOOLEAN : f => IsFusedSource(src)}
    /\ adapter = transform(NewSource)
    /\ out = <<>>
    /\ once = None
    /\ onceOut = <<>>

PullFlatten ==
    /\ MayPull
    /\ LET r == FlatMap_next(adapter)
       IN /\ adapter' = r.iter
          /\ out' = Append(out, r.ret)
    /\ UNCHANGED <<src, srcFused, once, onceOut>>

NextFlatten == PullFlatten

SpecFlatten == InitFlatten /\ [][NextFlatten]_vars

---------------------------------------------------------------------------
(* lib.rs: source.flatten_results().map(|res| Ok(res??)).stop_after_error() *)

\* Box::from, as the ? operator converts an error
Box(e) == <<"Box", e>>

\* |res| -> TryResult<_> { Ok(res??) }
TryMerge(res) ==
    IF IsErr(res) THEN Err(Box(res.val))
    ELSE IF IsErr(res.val) THEN Err(Box(res.val.val))
    ELSE Ok(res.val.val)

\* Map::next over FlatMap with that closure
MapNext(it) ==
    LET r == FlatMap_next(it)
    IN [ret |-> IF IsNone(r.ret) THEN None ELSE TryMerge(r.ret), iter |-> r.iter]

ComposedNext(self) == StopAfterErrorIter_next(self, MapNext(self.iter))

InitComposed ==
    /\ src \in SourcesUpTo(MaxOuter, MaxElems)
    /\ srcFused \in {f \in BOOLEAN : f => IsFusedSource(src)}
    /\ adapter = stop_after_error(transform(NewSource))
    /\ out = <<>>
    /\ once = None
    /\ onceOut = <<>>

PullComposed ==
    /\ MayPull
    /\ LET r == ComposedNext(adapter)
       IN /\ adapter' = r.iter
          /\ out' = Append(out, r.ret)
    /\ UNCHANGED <<src, srcFused, once, onceOut>>

NextComposed == PullComposed

SpecComposed == InitComposed /\ [][NextComposed]_vars

---------------------------------------------------------------------------
(* source.stop_after_error() over a source that ends and over one that      *)
(* never does: an endless source answers the entries of src round and round *)
(* and never "exhausted".                                                   *)

NewEndless == [pos |-> 0, calls |-> 0, endless |-> TRUE]

EndlessNext(it) ==
    [ret |-> src[(it.pos % Len(src)) + 1],
     iter |-> [pos |-> it.pos + 1, calls |-> it.calls + 1, endless |-> TRUE]]

IsEndless == "endless" \in DOMAIN adapter.iter

InitEndless ==
    /\ src \in SeqsUpTo(StopItems, MaxLen) \ {<<>>}
    /\ srcFused = FALSE
    /\ adapter = stop_after_error(NewEndless)
    /\ out = <<>>
    /\ once = None
    /\ onceOut = <<>>

InitAnyLength == InitStop \/ InitEndless

PullFinite == ~IsEndless /\ PullStop

PullEndless ==
    /\ IsEndless
    /\ MayPull
    /\ Len(out) < MaxPulls
    /\ LET r == StopAfterErrorIter_next(adapter, EndlessNext(adapter.iter))
       IN /\ adapter' = r.iter
          /\ out' = Append(out, r.ret)
    /\ UNCHANGED <<src, srcFused, once, onceOut>>

NextAnyLength == PullFinite \/ PullEndless

SpecAnyLength == InitAnyLength /\ [][NextAnyLength]_vars

---------------------------------------------------------------------------
(* Either adapter over its source: source.stop_after_error() or             *)
(* source.flatten_results(), whichever the caller built.                    *)

IsStopChain == "error" \in DOMAIN adapter

InitEither == InitStop \/ InitFlatten

PullEitherStop == IsStopChain /\ PullStop

PullEitherFlatten == ~IsStopChain /\ PullFlatten

NextEither == PullEitherStop \/ PullEitherFlatten

SpecEither == InitEither /\ [][NextEither]_vars

---------------------------------------------------------------------------
(* What the claims speak of *)

IsPrefix(a, b) == Len(a) <= Len(b) /\ a = SubSeq(b, 1, Len(a))

\* the items of a sequence of Options before its first None: what collect() keeps
RECURSIVE UntilNone(_)
UntilNone(s) ==
    IF s = <<>> THEN <<>>
    ELSE IF IsNone(Head(s)) THEN <<>>
    ELSE <<Head(s)>> \o UntilNone(Tail(s))

\* the prefix of a sequence of Results up to and including its first Err
RECURSIVE ThroughFirstErr(_)
ThroughFirstErr(s) ==
    IF s = <<>> THEN <<>>
    ELSE IF IsErr(Head(s)) THEN <<Head(s)>>
    ELSE <<Head(s)>> \o ThroughFirstErr(Tail(s))

HasErr(s) == \E i \in 1..Len(s) : IsErr(s[i])

ErrsOf(s) == SelectSeq(s, IsErr)
OksOf(s) == SelectSeq(s, IsOk)

\* the output block of one source item: one Success per element of the
\* collection, in the collection's order, or the single Failure
BlockOf(item) ==
    IF IsOk(item) THEN [i \in 1..Len(item.val) |-> Ok(item.val[i])]
    ELSE <<Err(item.val)>>

RECURSIVE ConcatBlocks(_)
ConcatBlocks(s) ==
    IF s = <<>> THEN <<>> ELSE BlockOf(Head(s)) \o ConcatBlocks(Tail(s))

\* how many output items the source entries of s stand for
RECURSIVE BlockTotal(_)
BlockTotal(s) ==
    IF s = <<>> THEN 0
    ELSE (IF IsNone(Head(s)) THEN 0 ELSE Len(BlockOf(Head(s)))) + BlockTotal(Tail(s))

\* the shortest prefix of the source whose blocks contain k items
ShortestPrefix(k) ==
    CHOOSE n \in 0..Len(src) :
        /\ BlockTotal(SubSeq(src, 1, n)) >= k
        /\ \A m \in 0..(n - 1) : BlockTotal(SubSeq(src, 1, m)) < k

\* the two error levels of a flattened item merged into one Result
Merged(x) ==
    IF IsErr(x) THEN Err(<<"Box", x.val>>)
    ELSE IF IsErr(x.val) THEN Err(<<"Box", x.val.val>>)
    ELSE Ok(x.val.val)

MergedAll(s) == [i \in 1..Len(s) |-> Merged(s[i])]

\* the flattening adapter's view of itself
FlatPos == adapter.iter.iter.pos
\* what is left to emit of the block being unrolled
BlockLeft ==
    IF IsNone(adapter.frontiter) THEN 0
    ELSE Len(adapter.frontiter.val.a)
         + (IF IsNone(adapter.frontiter.val.b) THEN 0 ELSE 1)
\* the collection elements not yet pulled out of the collection being unrolled
ElemsLeft ==
    IF IsNone(adapter.frontiter) THEN 0 ELSE Len(adapter.frontiter.val.a)

---------------------------------------------------------------------------
(* Claims about stop_after_error() *)

\* C1: collecting stop_after_error() over a finite source gives the source's
\* prefix up to and including the first Failure, every item unchanged, and the
\* whole source when it holds no Failure.  While the caller is still pulling,
\* what it has got so far is a prefix of that.
C1_PrefixThroughFirstFailure ==
    LET got == UntilNone(out)
        want == ThroughFirstErr(UntilNone(src))
    IN /\ IsPrefix(got, want)
       /\ NoneCount(out) > 0 => got = want

\* C1 witness: collection is over, the first Failure sat in the middle of the
\* source, and the output is the source cut right after it.
C1_Witness ==
    /\ NoneCount(out) > 0
    /\ \E i \in 2..(Len(src) - 1) :
          /\ \A k \in 1..(i - 1) : IsOk(src[k])
          /\ IsErr(src[i])
          /\ ~IsNone(src[i + 1])
          /\ UntilNone(out) = SubSeq(src, 1, i)

\* C2: after a pull has returned a Failure, every later pull returns
\* "exhausted": no item follows a Failure in the output.
C2_ExhaustedAfterFailure ==
    \A i \in 1..Len(out) : \A j \in (i + 1)..Len(out) :
        IsErr(out[i]) => IsNone(out[j])

\* C2 witness: a Failure was returned, the caller pulled twice more, and the
\* source still had an item right behind the Failure.
C2_Witness ==
    \E i \in 1..Len(out) :
        /\ IsErr(out[i])
        /\ Len(out) >= i + 2
        /\ adapter.iter.pos < Len(src)
        /\ ~IsNone(src[adapter.iter.pos + 1])

\* C3: once the error flag is true, a pull leaves the underlying source as it
\* is: neither its position nor the count of next() calls on it changes.
C3_HaltedLeavesSourceAlone ==
    [][adapter.error => adapter'.iter = adapter.iter]_vars

\* C3 witness: the flag is true, a pull has been made since (it answered
\* "exhausted"), and the source still holds items.
C3_Witness ==
    /\ adapter.error
    /\ Len(out) >= 2
    /\ IsNone(Last(out))
    /\ adapter.iter.pos < Len(src)

\* C8 as claimed: once the adapter has returned "exhausted", for whatever
\* reason, no later pull calls next() on the underlying source.
C8_AsClaimed ==
    [][NoneCount(out) > 0 => adapter'.iter.calls = adapter.iter.calls]_vars

\* C8 amended: once the adapter has returned "exhausted", a later pull makes no
\* next() call on the underlying source if a Failure has been returned, and
\* exactly one next() call on it if none has.
C8_ExhaustedThenSourcePolledUnlessHalted ==
    [][NoneCount(out) > 0 =>
         IF HasErr(out)
         THEN adapter'.iter = adapter.iter
         ELSE adapter'.iter.calls = adapter.iter.calls + 1]_vars

\* C8 witness: the adapter answered "exhausted" with no Failure seen, and a
\* later pull returned a further item of the source.
C8_Witness ==
    /\ ~HasErr(out)
    /\ \E i \in 1..Len(out) : \E j \in (i + 1)..Len(out) :
          IsNone(out[i]) /\ IsOk(out[j])

---------------------------------------------------------------------------
(* Claims about stop_after_error() applied twice *)

\* C7: pull by pull, stop_after_error() over stop_after_error() returns what
\* stop_after_error() alone returns over the same source.
C7_TwiceSameAsOnce == out = onceOut

\* C7 witness: both chains have returned a Failure and then been pulled again
\* while the source still held items.
C7_Witness ==
    /\ adapter.error /\ adapter.iter.error
    /\ Len(out) >= 3
    /\ IsNone(Last(out))
    /\ adapter.iter.iter.pos < Len(src)

---------------------------------------------------------------------------
(* Claims about flatten_results() *)

\* C4: the output of flatten_results() is the concatenation, in source order,
\* of one block per source item: a Success per element of a Success
\* collection, in the collection's order, and the one Failure for a Failure.
\* While the caller is still pulling, what it has got is a prefix of that.
C4_ConcatenationOfBlocks ==
    LET got == UntilNone(out)
        want == ConcatBlocks(UntilNone(src))
    IN /\ IsPrefix(got, want)
       /\ NoneCount(out) > 0 => got = want

\* C4 witness: a two-element collection, a Failure, and a further non-empty
\* collection have all been flattened.
C4_Witness ==
    /\ NoneCount(out) > 0
    /\ Len(src) = 3
    /\ IsOk(src[1]) /\ Len(src[1].val) = 2 /\ src[1].val[1] # src[1].val[2]
    /\ IsErr(src[2])
    /\ IsOk(src[3]) /\ Len(src[3].val) >= 1
    /\ Len(UntilNone(out)) = 3 + Len(src[3].val)

\* C5: the Failures of the output are the Failures of the source, one for
\* one, same error, same order; and there are no more Successes in the output
\* than the Success collections hold elements, exactly as many once the
\* output is complete.
C5_FailuresRelayedOnce ==
    LET got == UntilNone(out)
        items == UntilNone(src)
    IN /\ IsPrefix(ErrsOf(got), ErrsOf(items))
       /\ Len(OksOf(got)) <= ElemTotal(items)
       /\ NoneCount(out) > 0 =>
             /\ ErrsOf(got) = ErrsOf(items)
             /\ Len(OksOf(got)) = ElemTotal(items)

\* C5 witness: a source with two Failures carrying different errors and a
\* non-empty collection has been flattened to the end.
C5_Witness ==
    /\ NoneCount(out) > 0
    /\ Len(ErrsOf(UntilNone(out))) = 2
    /\ ErrsOf(UntilNone(out))[1] # ErrsOf(UntilNone(out))[2]
    /\ Len(OksOf(UntilNone(out))) >= 1

NoLookAhead ==
    /\ out = <<>> => FlatPos = 0
    /\ (out # <<>> /\ ~IsNone(Last(out))) =>
          FlatPos = ShortestPrefix(Len(UntilNone(out)))
    /\ Len(OksOf(out)) = ElemTotal(SubSeq(src, 1, FlatPos)) - ElemsLeft

\* C10: the flattening adapter never runs ahead.  Right after the pull that
\* returned the K-th item the source has been pulled for the shortest prefix
\* whose blocks contain K items; every element pulled out of a collection has
\* been returned; and a pull takes a new source item only when nothing is left
\* to emit of the current block.
C10_NeverRunsAhead ==
    /\ [](NoLookAhead)
    /\ [][adapter'.iter.iter.pos # adapter.iter.iter.pos => BlockLeft = 0]_vars

\* C10 witness: the first collection has been emitted in full and the source
\* has not been pulled for the item behind it.
C10_Witness ==
    /\ Len(src) >= 2
    /\ IsOk(src[1]) /\ Len(src[1].val) = 2
    /\ ~IsNone(src[2])
    /\ Len(out) = 2 /\ IsOk(out[2])
    /\ FlatPos = 1

\* whether the source has answered "exhausted" to the adapter: a None entry
\* among those pulled, or a call made at the end of the source
SourceSaidExhausted ==
    \/ adapter.iter.iter.calls > FlatPos
    \/ \E i \in 1..FlatPos : IsNone(src[i])

\* once the adapter has answered "exhausted": the source had, nothing was
\* left of the last block, and every block of the source has been emitted
FailOpen ==
    NoneCount(out) > 0 =>
        /\ SourceSaidExhausted
        /\ BlockLeft = 0
        /\ Len(UntilNone(out)) = BlockTotal(UntilNone(src))

\* C11: the flattening adapter is fail-open.  It answers "exhausted" only on
\* a pull that finds nothing left of the current block and gets "exhausted"
\* from the source; a Failure it has emitted does not stop it, so the elements
\* of the collections behind a Failure all come out.
C11_FailOpen ==
    /\ [](FailOpen)
    /\ [][(out' # out /\ IsNone(Last(out'))) =>
            (BlockLeft = 0 /\ SourceSaidExhausted')]_vars

\* C11 witness: the source ended with a Failure and then a non-empty
\* collection, and the output ends with that collection's last element.
C11_Witness ==
    /\ NoneCount(out) > 0
    /\ Len(src) >= 2
    /\ IsFusedSource(src)
    /\ IsErr(src[Len(src) - 1])
    /\ IsOk(Last(src)) /\ Len(Last(src).val) >= 1
    /\ Last(UntilNone(out)) = Ok(Last(Last(src).val))

\* the source position behind the empty collections that start at position p
RECURSIVE SkipEmpties(_)
SkipEmpties(p) ==
    IF p < Len(src) /\ IsOk(src[p + 1]) /\ Len(src[p + 1].val) = 0
    THEN SkipEmpties(p + 1)
    ELSE p

\* C12: an empty collection yields no item.  A pull that finds nothing left of
\* the current block takes every consecutive empty collection from the source
\* and returns the first item of the entry behind them, or "exhausted" if the
\* source ends (or answers None) there.
C12_EmptyCollectionsSkipped ==
    [][(out' # out /\ BlockLeft = 0 /\ NoneCount(out) = 0) =>
         LET q == SkipEmpties(FlatPos)
         IN IF q < Len(src) /\ ~IsNone(src[q + 1])
            THEN /\ adapter'.iter.iter.pos = q + 1
                 /\ Last(out') = BlockOf(src[q + 1])[1]
            ELSE /\ adapter'.iter.iter.pos = (IF q < Len(src) THEN q + 1 ELSE q)
                 /\ IsNone(Last(out'))]_vars

\* C12 witness: one pull has taken two consecutive empty collections and the
\* collection behind them, and returned that collection's element.
C12_Witness ==
    /\ Len(src) = 3
    /\ src[1] = Ok(<<>>)
    /\ src[2] = Ok(<<>>)
    /\ IsOk(src[3]) /\ Len(src[3].val) = 1
    /\ out = <<Ok(src[3].val[1])>>
    /\ FlatPos = 3

\* C14: the adapter starts with error = false and the flag never goes back
\* from true to false.
C14_ErrorFlagNeverCleared ==
    /\ [](out = <<>> => ~adapter.error)
    /\ [][adapter.error => adapter'.error]_vars

\* C14 witness: the flag went true on the first pull and has stayed true over
\* two more pulls.
C14_Witness ==
    /\ Len(out) = 3
    /\ IsErr(out[1])
    /\ adapter.error

\* C16: the error flag is true exactly when the adapter has returned a
\* Failure: the pull that sets it returns the Failure, and neither a Success
\* nor an "exhausted" answer of the source sets it.
C16_FlagIffFailureReturned ==
    /\ [](adapter.error <=> HasErr(out))
    /\ [][out' # out =>
            ((~adapter.error /\ adapter'.error) <=> IsErr(Last(out')))]_vars

\* C16 witness: after a Success and an "exhausted" answer of the source, with
\* the flag still false, a pull has returned a Failure and set the flag.
C16_Witness ==
    /\ Len(out) = 3
    /\ IsOk(out[1]) /\ IsNone(out[2]) /\ IsErr(out[3])
    /\ adapter.error

\* whether the first Failure of the source is its k-th entry, Successes before
FirstFailureAt(k) ==
    /\ k \in 1..Len(src)
    /\ IsErr(src[k])
    /\ \A j \in 1..(k - 1) : IsOk(src[j])

\* C15: over a source, ending or endless, whose first Failure is its k-th
\* item, the adapter yields those k items on k next() calls on the source and
\* answers "exhausted" from pull k + 1 on, without a further call.
C15_StopsAtFirstFailure ==
    \A k \in 1..Len(src) : FirstFailureAt(k) =>
        /\ adapter.iter.calls <= k
        /\ IsPrefix(UntilNone(out), SubSeq(src, 1, k))
        /\ Len(out) >= k => (SubSeq(out, 1, k) = SubSeq(src, 1, k)
                             /\ adapter.iter.calls = k)
        /\ \A j \in (k + 1)..Len(out) : IsNone(out[j])

\* C15 witness: an endless source with its first Failure second; the caller
\* has got two items and two "exhausted" answers on two source calls.
C15_Witness ==
    /\ IsEndless
    /\ FirstFailureAt(2)
    /\ Len(out) = 4
    /\ IsNone(out[3]) /\ IsNone(out[4])
    /\ adapter.iter.calls = 2

---------------------------------------------------------------------------
(* Claims about both adapters *)

\* the next() calls made on the underlying source so far
SourceCalls == IF IsStopChain THEN adapter.iter.calls ELSE adapter.iter.iter.calls

\* the items the adapter has produced so far
ItemsProduced == Len(out) - NoneCount(out)

\* the calls on which the source told the flattening adapter "exhausted" at its
\* end: every such pull for a FusedIterator source, the first one otherwise
EndCalls ==
    IF srcFused THEN NoneCount(out)
    ELSE IF NoneCount(out) > 0 /\ IsFusedSource(src) THEN 1
    ELSE 0

\* C13 as claimed: for either adapter the number of next() calls made on the
\* underlying source equals the number of items the adapter has produced.
C13_AsClaimed == SourceCalls = ItemsProduced

\* C13 amended: an adapter calls next() on its source once per source entry it
\* takes, not once per output item.  The truncating adapter makes one call per
\* pull up to the pull that returns the first Failure and none after it.  The
\* flattening adapter makes one call per source entry it has taken plus the
\* calls the source answered "exhausted" at its end, and has produced the
\* items of the blocks of those entries less what is left of the current one.
C13_OneCallPerSourceEntry ==
    IF IsStopChain
    THEN SourceCalls = (IF HasErr(out) THEN Len(ThroughFirstErr(out)) ELSE Len(out))
    ELSE /\ SourceCalls = FlatPos + EndCalls
         /\ ItemsProduced = BlockTotal(SubSeq(src, 1, FlatPos)) - BlockLeft

\* C13 witness: the flattening adapter has produced the two elements of a
\* collection on one next() call on the source.
C13_Witness ==
    /\ ~IsStopChain
    /\ Len(out) = 2
    /\ ItemsProduced = 2
    /\ SourceCalls = 1

---------------------------------------------------------------------------
(* Claims about flatten_results() followed by stop_after_error() *)

\* C6: flatten_results(), the merge of the two error levels, then
\* stop_after_error() give the flattened and merged elements up to and
\* including the first failure in document order, outer or nested, and
\* nothing after it.
C6_ComposedStopsAtFirstFailure ==
    LET got == UntilNone(out)
        want == ThroughFirstErr(MergedAll(ConcatBlocks(UntilNone(src))))
    IN /\ IsPrefix(got, want)
       /\ NoneCount(out) > 0 => got = want

\* C6 witness: the first failure was nested, second in the second collection,
\* with a further source item behind it; the output ends with it.
C6_Witness ==
    /\ NoneCount(out) > 0
    /\ Len(src) = 3
    /\ IsOk(src[1]) /\ Len(src[1].val) >= 1
    /\ \A i \in 1..Len(src[1].val) : IsOk(src[1].val[i])
    /\ IsOk(src[2]) /\ Len(src[2].val) = 2
    /\ IsOk(src[2].val[1]) /\ IsErr(src[2].val[2])
    /\ ~IsNone(src[3])
    /\ Len(UntilNone(out)) = Len(src[1].val) + 2
    /\ IsErr(Last(UntilNone(out)))

====
